---- MODULE Spec2Model ----
(***************************************************************************)
(* Model of the alert-monitoring engine of telegram-bot-alertas            *)
(* (src/main.py): the process-wide memory _state, the background loops     *)
(* (weather_loop, trains_air_loop, aemet_loop) and the on-demand command   *)
(* handlers (/alertas_tiempo, /alertas_sensible, /alertas_trenes,          *)
(* /alertas_aire, /alertas_aemet), all coroutines of one asyncio event     *)
(* loop.  A step of the model is what a coroutine executes between two     *)
(* suspension points: the fetches use the blocking `requests` library, so  *)
(* the only suspension points inside a check are the `await                *)
(* app.bot.send_message(...)` calls.                                       *)
(*                                                                         *)
(* Numeric forecast values are integers in tenths of their unit (650 is    *)
(* 65.0 km/h); the clock is time.time() in whole seconds.                  *)
(***************************************************************************)
EXTENDS Integers, Sequences, FiniteSets, TLC

VARIABLES
    state,      \* the _state dictionary (main.py:55-63)
    clock,      \* time.time()
    pc,         \* per coroutine: where it is suspended
    loc,        \* per coroutine: its live local variables while suspended
    cfg,        \* which optional source URLs are configured (ENV)
    outbox,     \* the Notifier: the last alert delivered, per stream
    seen,       \* history: the item ids each feed detector has observed
    ev          \* history: what the last step did, and on which inputs

vars == <<state, clock, pc, loc, cfg, outbox, seen, ev>>

----------------------------------------------------------------------------
(* Configuration: the defaults of the ENV section.                         *)

WEATHER_WIND_GUST_KMH == 60
WEATHER_RAIN_MM_H == 5
WEATHER_RAIN_PROB_PCT == 80
ALERT_COOLDOWN_MIN == 60

\* The thresholds cmd_alertas_sensible passes (gust_kmh=45.0,
\* rain_prob_pct=60.0, rain_mm_h=2.0).
SENSIBLE_GUST_KMH == 45
SENSIBLE_RAIN_PROB_PCT == 60
SENSIBLE_RAIN_MM_H == 2

\* Number of hourly entries compute_weather_alert inspects.
WINDOW_HOURS == 6

\* The defaults of the two configurable poll intervals, in minutes.
WEATHER_CHECK_MINUTES == 15
TRAIN_AIR_CHECK_MINUTES == 10

\* The floor of the sleep of weather_loop and trains_air_loop, in seconds,
\* and the two arguments of the max() in aemet_loop.
SLEEP_FLOOR_SEC == 60
AEMET_SLEEP_FLOOR_SEC == 120
AEMET_CHECK_MINUTES == 15

\* A threshold in the unit of the model's forecast values (tenths).
Tenths(x) == x * 10

\* ALERT_COOLDOWN_MIN * 60, the right-hand side of both cooldown tests.
CooldownSec == ALERT_COOLDOWN_MIN * 60

----------------------------------------------------------------------------
(* Bounds of the model.                                                    *)

\* Number of cooldown windows the clock may run through.
MaxWindows == 2

\* Instants inside a window, in seconds from its start: the start, one
\* second in, ten minutes in, one second before the end.
Offsets == {0, 1, 600, CooldownSec - 1}

\* time.time() when the process starts: the epoch clock is far beyond one
\* cooldown, so (now - 0.0) >= cooldown holds for the initial memory.
StartTime == 2 * CooldownSec

TimePoints ==
    {StartTime + w * CooldownSec + o : w \in 0..(MaxWindows - 1), o \in Offsets}

\* Longest hourly series of an evaluated forecast (the window is 6 entries).
MaxSeriesLen == 7

\* Largest of the small poll intervals tried, in minutes.
MaxIntervalMin == 2

\* Values of WEATHER_CHECK_MINUTES and TRAIN_AIR_CHECK_MINUTES: negative,
\* zero, small, and the two defaults.
IntervalMinutes ==
    (-1..MaxIntervalMin) \cup {TRAIN_AIR_CHECK_MINUTES, WEATHER_CHECK_MINUTES}

----------------------------------------------------------------------------
(* Values.                                                                 *)

\* Python's None, for a signature, an id or a JSON null.
None == [t |-> "None"]

\* JSON values of the forecast: a number, null, or something float() rejects.
Num(v) == [t |-> "num", v |-> v]
\* A string value: a feed item id, or a JSON string.
Str(s) == [t |-> "str", v |-> s]
NotNumeric == Str("n/a")

IsNum(x) == x.t = "num"

\* The result of a fetch that raised (network error, non-2xx, bad payload).
FetchError == [t |-> "error"]

Max2(a, b) == IF a >= b THEN a ELSE b
Min2(a, b) == IF a <= b THEN a ELSE b

\* values[:n]
FirstN(values, n) == SubSeq(values, 1, Min2(n, Len(values)))

RECURSIVE MaxOf(_, _)
\* The loop of _max_first_n: None and non-numeric entries are skipped, the
\* running maximum starts at mx.
MaxOf(values, mx) ==
    IF values = <<>> THEN mx
    ELSE MaxOf(Tail(values),
               IF IsNum(Head(values)) THEN Max2(mx, Head(values).v) ELSE mx)

\* The maximum taken over the whole series, whatever n.
max_whole_series(values, n) == MaxOf(values, 0)

\* _max_first_n(values, n)
max_first_n(values, n) == MaxOf(FirstN(values, n), 0)

\* f"{x:.0f}" of a value in tenths: the nearest integer, ties to even.
Fmt0(v) ==
    LET q == v \div 10
        r == v % 10
    IN  IF r < 5 THEN q
        ELSE IF r > 5 THEN q + 1
        ELSE IF q % 2 = 0 THEN q ELSE q + 1

\* f"{x:.1f}" of a value in tenths: the value itself, one decimal.
Fmt1(v) == v

\* A reason string: its fixed text (kind) and the formatted number in it.
Reason(kind, shown) == <<kind, shown>>

\* An evaluator that stops at the first reason that applies.
compute_weather_alert_first_match(data, gust_kmh, rain_prob_pct, rain_mm_h, label) ==
    LET gust_now == data.gust_now
        max_pp == max_first_n(data.pp, WINDOW_HOURS)
        max_pr == max_first_n(data.pr, WINDOW_HOURS)
        max_gust == max_first_n(data.gusts, WINDOW_HOURS)
        reasons ==
            IF IsNum(gust_now) /\ gust_now.v >= gust_kmh
            THEN <<Reason("rachas_ahora", Fmt0(gust_now.v))>>
            ELSE IF max_gust >= gust_kmh
            THEN <<Reason("rachas_proximas", Fmt0(max_gust))>>
            ELSE IF max_pp >= rain_prob_pct
            THEN <<Reason("prob_lluvia", Fmt0(max_pp))>>
            ELSE IF max_pr >= rain_mm_h
            THEN <<Reason("lluvia_intensa", Fmt1(max_pr))>>
            ELSE <<>>
    IN  IF reasons = <<>> THEN None
        ELSE [t |-> "sig", reasons |-> reasons, label |-> label]

\* compute_weather_alert: None, or the signature of the alert (the message
\* text carries the same reasons plus the city and is not modelled).
compute_weather_alert(data, gust_kmh, rain_prob_pct, rain_mm_h, label) ==
    LET gust_now == data.gust_now
        max_pp == max_first_n(data.pp, WINDOW_HOURS)
        max_pr == max_first_n(data.pr, WINDOW_HOURS)
        max_gust == max_first_n(data.gusts, WINDOW_HOURS)
        r1 == IF IsNum(gust_now) /\ gust_now.v >= gust_kmh
              THEN <<Reason("rachas_ahora", Fmt0(gust_now.v))>> ELSE <<>>
        r2 == IF max_gust >= gust_kmh
              THEN <<Reason("rachas_proximas", Fmt0(max_gust))>> ELSE <<>>
        r3 == IF max_pp >= rain_prob_pct
              THEN <<Reason("prob_lluvia", Fmt0(max_pp))>> ELSE <<>>
        r4 == IF max_pr >= rain_mm_h
              THEN <<Reason("lluvia_intensa", Fmt1(max_pr))>> ELSE <<>>
        reasons == r1 \o r2 \o r3 \o r4
    IN  IF reasons = <<>> THEN None
        ELSE [t |-> "sig", reasons |-> reasons, label |-> label]

\* A forecast as open_meteo_hourly returns it: current gust and the three
\* hourly series.
Snapshot(gn, gusts, pp, pr) ==
    [t |-> "forecast", gust_now |-> gn, gusts |-> gusts, pp |-> pp, pr |-> pr]

\* Calm: nothing reaches a threshold, strict or sensible.
Calm == Snapshot(Num(300), <<Num(310), None>>, <<Num(100)>>, <<Num(0)>>)
\* Breezy: gust 50 km/h, an alert for the sensible thresholds only.
Breezy == Snapshot(Num(500), <<Num(420)>>, <<Num(300)>>, <<Num(5)>>)
\* Gusty: current gust 65 km/h against the strict 60.
Gusty == Snapshot(Num(650), <<Num(400), NotNumeric>>, <<Num(200)>>, <<Num(0)>>)
\* Stormy: all four strict reasons.
Stormy == Snapshot(Num(700), <<Num(725)>>, <<None, Num(900)>>, <<Num(62)>>)

Forecasts == {Calm, Breezy, Gusty, Stormy}

\* What open_meteo_hourly can do in a check: raise, or return a forecast.
ForecastFetch == {FetchError} \cup Forecasts

StrictAlert(data) ==
    compute_weather_alert(data, Tenths(WEATHER_WIND_GUST_KMH),
                          Tenths(WEATHER_RAIN_PROB_PCT),
                          Tenths(WEATHER_RAIN_MM_H), "estricto")

\* The sensible evaluation signed with the label of the strict one.
SensibleAlert_strict_label(data) ==
    compute_weather_alert(data, Tenths(SENSIBLE_GUST_KMH),
                          Tenths(SENSIBLE_RAIN_PROB_PCT),
                          Tenths(SENSIBLE_RAIN_MM_H), "estricto")

SensibleAlert(data) ==
    compute_weather_alert(data, Tenths(SENSIBLE_GUST_KMH),
                          Tenths(SENSIBLE_RAIN_PROB_PCT),
                          Tenths(SENSIBLE_RAIN_MM_H), "sensible")

----------------------------------------------------------------------------
(* The evaluator on its own: compute_weather_alert over a range of         *)
(* forecasts and thresholds.                                               *)

\* s followed by nulls, up to length n.
PadTo(s, n) == s \o [i \in 1..(n - Len(s)) |-> None]

\* Hourly series: absent or empty, without a numeric entry, negative only,
\* a numeric entry after one float() rejects, and a high value as the k-th
\* entry, inside the window (k = 6) and beyond it.
HourlySeries ==
    {<<>>, <<None, NotNumeric>>, <<Num(-10)>>}
    \cup {<<NotNumeric, Num(v)>> : v \in {30, 500, 650}}
    \cup {PadTo(<<Num(30)>>, k - 1) \o <<Num(900)>> : k \in WINDOW_HOURS..MaxSeriesLen}

\* current.wind_gusts_10m: absent or null, not numeric, or a number.
CurrentGusts == {None, NotNumeric, Num(-10), Num(500), Num(650)}

EvaluatedForecasts ==
    {Snapshot(gn, gusts, pp, pr) :
        gn \in CurrentGusts, gusts \in HourlySeries,
        pp \in HourlySeries, pr \in HourlySeries}

\* The keyword arguments of compute_weather_alert: the strict defaults, the
\* thresholds of cmd_alertas_sensible, and the strict path with the three
\* WEATHER_* variables set to 0.
ThresholdSets ==
    {[gust_kmh |-> Tenths(WEATHER_WIND_GUST_KMH),
      rain_prob_pct |-> Tenths(WEATHER_RAIN_PROB_PCT),
      rain_mm_h |-> Tenths(WEATHER_RAIN_MM_H), label |-> "estricto"],
     [gust_kmh |-> Tenths(SENSIBLE_GUST_KMH),
      rain_prob_pct |-> Tenths(SENSIBLE_RAIN_PROB_PCT),
      rain_mm_h |-> Tenths(SENSIBLE_RAIN_MM_H), label |-> "sensible"],
     [gust_kmh |-> 0, rain_prob_pct |-> 0, rain_mm_h |-> 0, label |-> "estricto"]}

\* One call of compute_weather_alert, recorded with its arguments.
Evaluation(data, th) ==
    [op |-> "evaluate", data |-> data, th |-> th,
     result |-> compute_weather_alert(data, th.gust_kmh, th.rain_prob_pct,
                                      th.rain_mm_h, th.label)]

----------------------------------------------------------------------------
(* The coroutines.                                                         *)

Loops == {"weather_loop", "trains_air_loop", "aemet_loop"}

\* The Application processes one update at a time (concurrent_updates is
\* not set in main()), so at most one command handler is in flight.
Procs == Loops \cup {"handler"}

NoLocals == [t |-> "none"]

\* The last step, for the history variable ev.
Event(p, op, out, f, sig) ==
    [proc |-> p, op |-> op, out |-> out, f |-> f, sig |-> sig]

\* The memory right after the module is loaded.
InitialState ==
    /\ state = [weather_last_sig |-> None,
                weather_last_ts |-> 0,
                train_r1_last_id |-> None,
                train_rg1_last_id |-> None,
                aemet_last_id |-> None,
                air_last_sig |-> None,
                air_last_ts |-> 0]
    /\ clock = StartTime
    /\ pc = [p \in Procs |-> "idle"]
    /\ loc = [p \in Procs |-> NoLocals]
    /\ outbox = [strict |-> None, air |-> None]
    /\ seen = [r1 |-> {}, rg1 |-> {}, aemet |-> {}]
    /\ ev = Event("none", "init", "none", None, None)

\* Every optional source configured.
Init ==
    /\ InitialState
    /\ cfg = [r1 |-> TRUE, rg1 |-> TRUE, air |-> TRUE]

\* Time passes.
Tick ==
    /\ \E t \in TimePoints : t > clock /\ clock' = t
    /\ ev' = Event("clock", "tick", "none", None, None)
    /\ UNCHANGED <<state, pc, loc, cfg, outbox, seen>>

----------------------------------------------------------------------------
(* Strict weather: maybe_send_weather_alert.                               *)

\* The cooldown compared in minutes against a difference in seconds.
cooldown_ok_minutes(now, last_ts) == (now - last_ts) >= ALERT_COOLDOWN_MIN

\* cooldown_ok = (now - _state["weather_last_ts"]) >= ALERT_COOLDOWN_MIN * 60
cooldown_ok(now, last_ts) == (now - last_ts) >= CooldownSec

\* The gate suppressing every candidate inside the cooldown, changed or not.
WeatherSuppressed_cooldown_only(sig, now, st) ==
    ~cooldown_ok(now, st.weather_last_ts)

\* A gate that suppresses nothing.
WeatherSuppressed_never(sig, now, st) == FALSE

\* The suppression test of maybe_send_weather_alert:
\* sig == _state["weather_last_sig"] and not cooldown_ok.
WeatherSuppressed(sig, now, st) ==
    sig = st.weather_last_sig /\ ~cooldown_ok(now, st.weather_last_ts)

\* The memory committed before the send is known to have succeeded.
WeatherCommit_always(st, sig, now, sent) ==
    [st EXCEPT !.weather_last_sig = sig, !.weather_last_ts = now]

\* A commit that stores the signature and leaves the timestamp.
WeatherCommit_signature_only(st, sig, now, sent) ==
    IF sent THEN [st EXCEPT !.weather_last_sig = sig] ELSE st

\* The two assignments after the awaited send; an exception in the send
\* skips them.
WeatherCommit(st, sig, now, sent) ==
    IF sent
    THEN [st EXCEPT !.weather_last_sig = sig, !.weather_last_ts = now]
    ELSE st

\* maybe_send_weather_alert from its entry to its first suspension point,
\* for the forecast fetch outcome f.
maybe_send_weather_alert(p, f) ==
    /\ pc[p] = "idle"
    /\ UNCHANGED <<state, clock, cfg, outbox, seen>>
    /\ IF f = FetchError
       THEN /\ ev' = Event(p, "strict", "fetch_error", f, None)
            /\ UNCHANGED <<pc, loc>>
       ELSE LET sig == StrictAlert(f)
                now == clock
            IN  IF sig = None
                THEN /\ ev' = Event(p, "strict", "no_alert", f, None)
                     /\ UNCHANGED <<pc, loc>>
                ELSE IF WeatherSuppressed(sig, now, state)
                THEN /\ ev' = Event(p, "strict", "suppressed", f, sig)
                     /\ UNCHANGED <<pc, loc>>
                ELSE /\ ev' = Event(p, "strict", "gate_pass", f, sig)
                     /\ pc' = [pc EXCEPT ![p] = "weather_send"]
                     /\ loc' = [loc EXCEPT ![p] = [t |-> "weather", sig |-> sig, now |-> now]]

\* The awaited send_message of maybe_send_weather_alert returns or raises,
\* and the coroutine runs to its end.
weather_send_done(p) ==
    /\ pc[p] = "weather_send"
    /\ \E sent \in BOOLEAN :
        /\ state' = WeatherCommit(state, loc[p].sig, loc[p].now, sent)
        /\ outbox' = IF sent
                     THEN [outbox EXCEPT !.strict = [sig |-> loc[p].sig, now |-> loc[p].now]]
                     ELSE outbox
        /\ ev' = Event(p, "strict", IF sent THEN "send_ok" ELSE "send_failed",
                       None, loc[p].sig)
    /\ pc' = [pc EXCEPT ![p] = "idle"]
    /\ loc' = [loc EXCEPT ![p] = NoLocals]
    /\ UNCHANGED <<clock, cfg, seen>>

\* One iteration of weather_loop: the sleep ends and the check runs; an
\* exception of the check is logged and the loop sleeps again.
weather_loop == \E f \in ForecastFetch : maybe_send_weather_alert("weather_loop", f)

\* /alertas_tiempo: the same check, in the command handler.  The handler's
\* reply_text calls send to the requesting chat and touch no memory.
cmd_alertas_tiempo == \E f \in ForecastFetch : maybe_send_weather_alert("handler", f)

\* /alertas_sensible up to its suspension point: no gate, no memory.
cmd_alertas_sensible ==
    /\ pc["handler"] = "idle"
    /\ UNCHANGED <<state, clock, cfg, outbox, seen>>
    /\ \E f \in ForecastFetch :
        IF f = FetchError
        THEN /\ ev' = Event("handler", "sensible", "fetch_error", f, None)
             /\ UNCHANGED <<pc, loc>>
        ELSE LET sig == SensibleAlert(f)
             IN  IF sig = None
                 THEN /\ ev' = Event("handler", "sensible", "no_alert", f, None)
                      /\ UNCHANGED <<pc, loc>>
                 ELSE /\ ev' = Event("handler", "sensible", "gate_pass", f, sig)
                      /\ pc' = [pc EXCEPT !["handler"] = "sensible_send"]
                      /\ loc' = [loc EXCEPT !["handler"] =
                                    [t |-> "weather", sig |-> sig, now |-> clock]]

\* The awaited send of /alertas_sensible returns or raises.
sensible_send_done ==
    /\ pc["handler"] = "sensible_send"
    /\ \E sent \in BOOLEAN :
        ev' = Event("handler", "sensible", IF sent THEN "send_ok" ELSE "send_failed",
                    None, loc["handler"].sig)
    /\ pc' = [pc EXCEPT !["handler"] = "idle"]
    /\ loc' = [loc EXCEPT !["handler"] = NoLocals]
    /\ UNCHANGED <<state, clock, cfg, outbox, seen>>

WeatherProcs == {"weather_loop", "handler"}

\* compute_weather_alert called on one forecast and one set of thresholds;
\* the function reads no memory and writes none.
EvaluateForecast ==
    /\ ev.op = "init"
    /\ \E data \in EvaluatedForecasts, th \in ThresholdSets :
        ev' = Evaluation(data, th)
    /\ UNCHANGED <<state, clock, pc, loc, cfg, outbox, seen>>

SpecEvaluate == Init /\ [][EvaluateForecast]_vars

NextWeather ==
    \/ Tick
    \/ weather_loop
    \/ cmd_alertas_tiempo
    \/ cmd_alertas_sensible
    \/ \E p \in WeatherProcs : weather_send_done(p)
    \/ sensible_send_done

\* The weather source: the automatic loop and the on-demand commands.
SpecWeather == Init /\ [][NextWeather]_vars

\* No strict check is between its gate and the end of its send.
NoStrictInFlight == \A p \in WeatherProcs : pc[p] # "weather_send"

NextWeatherSeq ==
    \/ Tick
    \/ (NoStrictInFlight /\ weather_loop)
    \/ (NoStrictInFlight /\ cmd_alertas_tiempo)
    \/ cmd_alertas_sensible
    \/ \E p \in WeatherProcs : weather_send_done(p)
    \/ sensible_send_done

\* The weather source when strict checks run one after another: a strict
\* check starts only when no other strict check is suspended in its send.
SpecWeatherSeq == Init /\ [][NextWeatherSeq]_vars

----------------------------------------------------------------------------
(* Feeds: parse_rss_items and the classifier.                              *)

\* A title is the sequence of its characters.
UpperCase == <<"A", "B", "C", "D", "E", "F", "G", "H", "I", "J", "K", "L", "M",
               "N", "O", "P", "Q", "R", "S", "T", "U", "V", "W", "X", "Y", "Z">>
LowerCase == <<"a", "b", "c", "d", "e", "f", "g", "h", "i", "j", "k", "l", "m",
               "n", "o", "p", "q", "r", "s", "t", "u", "v", "w", "x", "y", "z">>

\* str.lower(), on the characters the model's titles use.
lower(title) ==
    [i \in 1..Len(title) |->
        IF \E k \in 1..26 : UpperCase[k] = title[i]
        THEN LowerCase[CHOOSE k \in 1..26 : UpperCase[k] = title[i]]
        ELSE title[i]]

\* k in t
Contains(t, k) ==
    \E i \in 1..(Len(t) - Len(k) + 1) : SubSeq(t, i, i + Len(k) - 1) = k

keywords ==
    {<<"i", "n", "c", "i", "d">>,
     <<"a", "v", "a", "r", "i", "a">>,
     <<"a", "v", "e", "r", "i'", "a">>,
     <<"s", "u", "p", "r", "i", "m", "i", "t">>,
     <<"s", "u", "p", "r", "i", "m", "i", "d", "o">>,
     <<"c", "a", "n", "c", "e", "l">>,
     <<"i", "n", "t", "e", "r", "r", "o", "m", "p">>,
     <<"i", "n", "t", "e", "r", "r", "u", "m", "p">>,
     <<"s", "u", "s", "p">>,
     <<"r", "e", "t", "a", "r", "d">>,
     <<"r", "e", "t", "r", "a", "s">>,
     <<"d", "e", "m", "o", "r", "a">>,
     <<"s", "e", "r", "v", "e", "i">>,
     <<"s", "e", "r", "v", "i", "c", "i", "o">>,
     <<"l", "i", "m", "i", "t">>,
     <<"t", "a", "l", "l">>,
     <<"c", "o", "r", "t", "e">>,
     <<"s", "e", "n", "s", "e", " ", "s", "e", "r", "v", "e", "i">>,
     <<"s", "i", "n", " ", "s", "e", "r", "v", "i", "c", "i", "o">>}

\* looks_serious_train(title); "i'" stands for the accented i of "averia".
looks_serious_train(title) ==
    LET t == lower(title) IN \E k \in keywords : Contains(t, k)

\* "R1 Suspended"
TitleSuspended == <<"R", "1", " ", "S", "u", "s", "p", "e", "n", "d", "e", "d">>
\* "R1 on schedule"
TitleOnSchedule ==
    <<"R", "1", " ", "o", "n", " ", "s", "c", "h", "e", "d", "u", "l", "e">>

Titles == {TitleSuspended, TitleOnSchedule}

\* looks_serious_train on the model's titles, tabulated.
serious == [title \in Titles |-> looks_serious_train(title)]
ItemIds == {Str("g1"), Str("g2")}

\* An item of parse_rss_items (link and date are only copied into the text).
Items == [id : ItemIds, title : Titles]

\* What parse_rss_items(url, limit=1) can do: raise, or return a list of at
\* most one item.
Fetched(items) == [t |-> "items", items |-> items]
FeedFetch == {FetchError, Fetched(<<>>)} \cup {Fetched(<<it>>) : it \in Items}

\* A section of the check that its configuration or an earlier suspension
\* kept from running in this step.
NotRun == [t |-> "not_run"]

\* items is a non-empty list (a fetch that raised has no items).
HasItem(f) == f.t = "items" /\ f.items # <<>>

\* it = items[0]
ItemOf(f) == f.items[1]

\* The detector taking every fetched item for new.
DetectNew_any_item(f, last_id) == HasItem(f)

\* The new-by-id test shared by the three feeds:
\* items and items[0]["id"] != _state[<last id>].
DetectNew(f, last_id) == HasItem(f) /\ ItemOf(f).id # last_id

\* A rail section that forgets its last-seen id when the feed is empty.
RailSection_clears_when_empty(st, slot, f) ==
    IF f.t = "items" /\ f.items = <<>> THEN [st EXCEPT ![slot] = None]
    ELSE IF DetectNew(f, st[slot]) THEN [st EXCEPT ![slot] = ItemOf(f).id]
    ELSE st

\* A rail section that leaves the id of an item it is about to notify to be
\* written after the awaited send.
RailSection_writes_after_send(st, slot, f) ==
    IF DetectNew(f, st[slot]) /\ ~serious[ItemOf(f).title]
    THEN [st EXCEPT ![slot] = ItemOf(f).id]
    ELSE st

\* The assignment _state[<last id>] = it["id"] of a rail section, made
\* before the classifier is asked.
RailSection(st, slot, f) ==
    IF DetectNew(f, st[slot]) THEN [st EXCEPT ![slot] = ItemOf(f).id] ELSE st

\* A rail section that forwards every new item, serious or not.
RailNotify_unclassified(f, last_id) == DetectNew(f, last_id)

\* A rail section reaches its awaited send_message.
RailNotify(f, last_id) == DetectNew(f, last_id) /\ serious[ItemOf(f).title]

----------------------------------------------------------------------------
(* Air quality.                                                            *)

\* The keys of the modelled payloads, in the order sort_keys puts them.
SortedKeys == <<"aqi", "pm10">>

\* A decoded JSON object: its <<key, value>> pairs in document order.
KeysOf(data) == {data[i][1] : i \in 1..Len(data)}
ValueOf(data, k) == data[CHOOSE i \in 1..Len(data) : data[i][1] = k][2]

RECURSIVE DumpSorted(_, _)
\* json.dumps(data, sort_keys=True): the pairs in key order.
DumpSorted(data, keys) ==
    IF keys = <<>> THEN <<>>
    ELSE (IF Head(keys) \in KeysOf(data)
          THEN << <<Head(keys), ValueOf(data, Head(keys))>> >> ELSE <<>>)
         \o DumpSorted(data, Tail(keys))

\* air_signature(data) = str(hash(json.dumps(data, sort_keys=True))).  hash
\* is deterministic within one process; its collisions are not modelled.
air_signature(data) == [t |-> "hash", of |-> DumpSorted(data, SortedKeys)]

AirPayloads ==
    {<< <<"aqi", 42>> >>,
     << <<"aqi", 90>> >>,
     << <<"aqi", 42>>, <<"pm10", 7>> >>,
     << <<"pm10", 7>>, <<"aqi", 42>> >>}

\* What requests.get(AIR_QUALITY_URL).json() can do: raise, or return data.
Json(data) == [t |-> "json", data |-> data]
AirFetch == {FetchError} \cup {Json(d) : d \in AirPayloads}

\* The air section applying the rule of the weather gate: changed
\* signature or cooldown elapsed.
AirNotify_changed_or_cooldown(f, st, now) ==
    /\ f.t = "json"
    /\ (air_signature(f.data) # st.air_last_sig \/ cooldown_ok(now, st.air_last_ts))

\* The air section re-sending an unchanged snapshot once the cooldown has
\* elapsed.
AirNotify_cooldown_only(f, st, now) ==
    /\ f.t = "json"
    /\ cooldown_ok(now, st.air_last_ts)

\* The send test of the air section:
\* sig != _state["air_last_sig"] and cooldown_ok.
AirNotify(f, st, now) ==
    /\ f.t = "json"
    /\ air_signature(f.data) # st.air_last_sig
    /\ cooldown_ok(now, st.air_last_ts)

\* An air section that stamps air_last_ts even when the fetch raised.
AirSection_stamps_failed_fetch(st, f, now) ==
    IF f = FetchError THEN [st EXCEPT !.air_last_ts = now]
    ELSE IF AirNotify(f, st, now)
    THEN [st EXCEPT !.air_last_sig = air_signature(f.data), !.air_last_ts = now]
    ELSE st

\* The two assignments of the air section, made before the awaited send.
AirSection(st, f, now) ==
    IF AirNotify(f, st, now)
    THEN [st EXCEPT !.air_last_sig = air_signature(f.data), !.air_last_ts = now]
    ELSE st

----------------------------------------------------------------------------
(* check_trains_and_air.                                                   *)

\* The last step of a check_trains_and_air coroutine: where it started
\* (from: its entry or a send), how that send ended (out) and the locals it
\* had (was), what each section the step ran fetched, and the memory before
\* the step (old).
TAEvent(p, from, out, was, f1, f2, fa, old) ==
    [proc |-> p, op |-> "trains_air", from |-> from, out |-> out, was |-> was,
     r1 |-> f1, rg1 |-> f2, air |-> fa, old |-> old]

Observed(f) == IF HasItem(f) THEN {ItemOf(f).id} ELSE {}

\* check_trains_and_air from section `start` (1: R1, 2: RG1, 3: air, 4: the
\* end) to its next suspension point or its end; f1, f2 and fa are what the
\* fetches of the sections do if they run, out is how the send it resumes
\* from ended ("none" at the entry).
RunTrainsAir(p, start, out, f1, f2, fa) ==
    LET ran1 == start <= 1 /\ cfg.r1
        s1 == IF ran1 THEN RailSection(state, "train_r1_last_id", f1) ELSE state
        stop1 == ran1 /\ RailNotify(f1, state.train_r1_last_id)
        ran2 == ~stop1 /\ start <= 2 /\ cfg.rg1
        s2 == IF ran2 THEN RailSection(s1, "train_rg1_last_id", f2) ELSE s1
        stop2 == ran2 /\ RailNotify(f2, s1.train_rg1_last_id)
        ran3 == ~stop1 /\ ~stop2 /\ start <= 3 /\ cfg.air
        s3 == IF ran3 THEN AirSection(s2, fa, clock) ELSE s2
        stop3 == ran3 /\ AirNotify(fa, s2, clock)
        g1 == IF ran1 THEN f1 ELSE NotRun
        g2 == IF ran2 THEN f2 ELSE NotRun
        ga == IF ran3 THEN fa ELSE NotRun
    IN  /\ state' = s3
        /\ pc' = [pc EXCEPT ![p] =
                    IF stop1 THEN "r1_send"
                    ELSE IF stop2 THEN "rg1_send"
                    ELSE IF stop3 THEN "air_send"
                    ELSE "idle"]
        /\ loc' = [loc EXCEPT ![p] =
                    IF stop1 THEN [t |-> "item", it |-> ItemOf(f1)]
                    ELSE IF stop2 THEN [t |-> "item", it |-> ItemOf(f2)]
                    ELSE IF stop3
                    THEN [t |-> "air", sig |-> air_signature(fa.data), now |-> clock]
                    ELSE NoLocals]
        /\ seen' = [seen EXCEPT !.r1 = @ \cup Observed(g1),
                                !.rg1 = @ \cup Observed(g2)]
        /\ outbox' = IF pc[p] = "air_send" /\ out = "send_ok"
                     THEN [outbox EXCEPT !.air = [sig |-> loc[p].sig, now |-> loc[p].now]]
                     ELSE outbox
        /\ ev' = TAEvent(p, pc[p], out, loc[p], g1, g2, ga, state)
        /\ UNCHANGED <<clock, cfg>>

\* The outcomes of a fetch the check may make: none when the section is
\* not configured or already passed.
Fetches(runs, outcomes) == IF runs THEN outcomes ELSE {NotRun}

\* check_trains_and_air from its entry.
check_trains_and_air(p) ==
    /\ pc[p] = "idle"
    /\ \E f1 \in Fetches(cfg.r1, FeedFetch),
          f2 \in Fetches(cfg.rg1, FeedFetch),
          fa \in Fetches(cfg.air, AirFetch) :
        RunTrainsAir(p, 1, "none", f1, f2, fa)

\* An awaited send_message of check_trains_and_air returns or raises (the
\* exception is logged by the section's except clause), and the coroutine
\* goes on with the next section.
trains_air_resume(p) ==
    /\ pc[p] \in {"r1_send", "rg1_send", "air_send"}
    /\ \E sent \in BOOLEAN,
          f2 \in Fetches(cfg.rg1 /\ pc[p] = "r1_send", FeedFetch),
          fa \in Fetches(cfg.air /\ pc[p] # "air_send", AirFetch) :
        LET next == CASE pc[p] = "r1_send" -> 2
                      [] pc[p] = "rg1_send" -> 3
                      [] pc[p] = "air_send" -> 4
            out == IF sent THEN "send_ok" ELSE "send_failed"
        IN  RunTrainsAir(p, next, out, NotRun, f2, fa)

\* One iteration of trains_air_loop.
trains_air_loop == check_trains_and_air("trains_air_loop")

\* /alertas_trenes and /alertas_aire both run the whole check.
cmd_alertas_trenes == check_trains_and_air("handler")
cmd_alertas_aire == check_trains_and_air("handler")

TrainsAirProcs == {"trains_air_loop", "handler"}

----------------------------------------------------------------------------
(* check_aemet.                                                            *)

\* The last step of a check_aemet coroutine, as TAEvent.
AemetEvent(p, from, out, was, f, old) ==
    [proc |-> p, op |-> "aemet", from |-> from, out |-> out, was |-> was,
     f |-> f, old |-> old]

\* The assignment _state["aemet_last_id"] = it["id"], made before the send.
AemetSection(st, f) ==
    IF DetectNew(f, st.aemet_last_id) THEN [st EXCEPT !.aemet_last_id = ItemOf(f).id] ELSE st

\* check_aemet with the rail classifier applied to the warning's title.
AemetNotify_classified(f, last_id) ==
    DetectNew(f, last_id) /\ serious[ItemOf(f).title]

\* check_aemet reaches its awaited send_message: every new item, whatever
\* its title.
AemetNotify(f, last_id) == DetectNew(f, last_id)

\* check_aemet from its entry to its suspension point or its end.
check_aemet(p) ==
    /\ pc[p] = "idle"
    /\ \E f \in FeedFetch :
        /\ state' = AemetSection(state, f)
        /\ IF AemetNotify(f, state.aemet_last_id)
           THEN /\ pc' = [pc EXCEPT ![p] = "aemet_send"]
                /\ loc' = [loc EXCEPT ![p] = [t |-> "item", it |-> ItemOf(f)]]
           ELSE UNCHANGED <<pc, loc>>
        /\ seen' = [seen EXCEPT !.aemet = @ \cup Observed(f)]
        /\ ev' = AemetEvent(p, "idle", "none", NoLocals, f, state)
    /\ UNCHANGED <<clock, cfg, outbox>>

\* check_aemet and aemet_loop without their except clauses: the exception
\* of a failed send ends the coroutine.
aemet_send_done_propagates(p) ==
    /\ pc[p] = "aemet_send"
    /\ \E sent \in BOOLEAN :
        /\ ev' = AemetEvent(p, "aemet_send", IF sent THEN "send_ok" ELSE "send_failed",
                            loc[p], NotRun, state)
        /\ pc' = [pc EXCEPT ![p] = IF sent THEN "idle" ELSE "ended"]
    /\ loc' = [loc EXCEPT ![p] = NoLocals]
    /\ UNCHANGED <<state, clock, cfg, outbox, seen>>

\* The awaited send_message of check_aemet returns or raises (logged).
aemet_send_done(p) ==
    /\ pc[p] = "aemet_send"
    /\ \E sent \in BOOLEAN :
        ev' = AemetEvent(p, "aemet_send", IF sent THEN "send_ok" ELSE "send_failed",
                         loc[p], NotRun, state)
    /\ pc' = [pc EXCEPT ![p] = "idle"]
    /\ loc' = [loc EXCEPT ![p] = NoLocals]
    /\ UNCHANGED <<state, clock, cfg, outbox, seen>>

\* One iteration of aemet_loop.
aemet_loop == check_aemet("aemet_loop")

\* /alertas_aemet
cmd_alertas_aemet == check_aemet("handler")

AemetProcs == {"aemet_loop", "handler"}

----------------------------------------------------------------------------
(* The rail feeds: both lines configured, no air URL.                      *)

InitRail ==
    /\ InitialState
    /\ cfg = [r1 |-> TRUE, rg1 |-> TRUE, air |-> FALSE]

NextRail ==
    \/ trains_air_loop
    \/ cmd_alertas_trenes
    \/ \E p \in TrainsAirProcs : trains_air_resume(p)

SpecRail == InitRail /\ [][NextRail]_vars

(* The AEMET warning feed.                                                 *)

NextAemet ==
    \/ aemet_loop
    \/ cmd_alertas_aemet
    \/ \E p \in AemetProcs : aemet_send_done(p)

SpecAemet == Init /\ [][NextAemet]_vars

(* The feeds polled by their loops and checked on demand at the same      *)
(* time, for each configuration with one rail line.                        *)

RailConfigurations ==
    {[r1 |-> TRUE, rg1 |-> FALSE, air |-> FALSE],
     [r1 |-> FALSE, rg1 |-> TRUE, air |-> FALSE]}

InitFeeds ==
    /\ InitialState
    /\ cfg \in RailConfigurations

NextFeeds ==
    \/ trains_air_loop
    \/ cmd_alertas_trenes
    \/ \E p \in TrainsAirProcs : trains_air_resume(p)
    \/ aemet_loop
    \/ cmd_alertas_aemet
    \/ \E p \in AemetProcs : aemet_send_done(p)

SpecFeeds == InitFeeds /\ [][NextFeeds]_vars

(* The automatic loops of the three feeds, without on-demand checks.       *)

NextFeedLoops ==
    \/ trains_air_loop
    \/ trains_air_resume("trains_air_loop")
    \/ aemet_loop
    \/ aemet_send_done("aemet_loop")

SpecFeedLoops == InitRail /\ [][NextFeedLoops]_vars

(* The air-quality source alone: AIR_QUALITY_URL set, no rail feed.        *)

InitAir ==
    /\ InitialState
    /\ cfg = [r1 |-> FALSE, rg1 |-> FALSE, air |-> TRUE]

NextAir ==
    \/ Tick
    \/ trains_air_loop
    \/ cmd_alertas_aire
    \/ \E p \in TrainsAirProcs : trains_air_resume(p)

SpecAir == InitAir /\ [][NextAir]_vars

(* The two cooldown slots: the strict weather check and the air section,  *)
(* each run by its loop and on demand, AIR_QUALITY_URL set, no rail feed.  *)

\* time.time() has advanced by one cooldown.
TickCooldown ==
    /\ clock + CooldownSec \in TimePoints
    /\ clock' = clock + CooldownSec
    /\ ev' = Event("clock", "tick", "none", None, None)
    /\ UNCHANGED <<state, pc, loc, cfg, outbox, seen>>

NextSlots ==
    \/ TickCooldown
    \/ weather_loop
    \/ cmd_alertas_tiempo
    \/ \E p \in WeatherProcs : weather_send_done(p)
    \/ trains_air_loop
    \/ cmd_alertas_aire
    \/ \E p \in TrainsAirProcs : trains_air_resume(p)

SpecSlots == InitAir /\ [][NextSlots]_vars

(* The on-demand checks alone: every /alertas_* command, one update at a   *)
(* time, for the configurations of the optional sources below.             *)

\* R1 with the air URL, and RG1 alone.
Configurations ==
    {[r1 |-> TRUE, rg1 |-> FALSE, air |-> TRUE],
     [r1 |-> FALSE, rg1 |-> TRUE, air |-> FALSE]}

InitOnDemand ==
    /\ InitialState
    /\ cfg \in Configurations

NextOnDemand ==
    \/ cmd_alertas_tiempo
    \/ weather_send_done("handler")
    \/ cmd_alertas_sensible
    \/ sensible_send_done
    \/ cmd_alertas_trenes
    \/ cmd_alertas_aire
    \/ trains_air_resume("handler")
    \/ cmd_alertas_aemet
    \/ aemet_send_done("handler")

SpecOnDemand == InitOnDemand /\ [][NextOnDemand]_vars

(* The three background loops post_init starts, without on-demand checks,  *)
(* for each configuration with one optional source.                        *)

LoopConfigurations ==
    {[r1 |-> TRUE, rg1 |-> FALSE, air |-> FALSE],
     [r1 |-> FALSE, rg1 |-> TRUE, air |-> FALSE],
     [r1 |-> FALSE, rg1 |-> FALSE, air |-> TRUE]}

InitLoops ==
    /\ InitialState
    /\ cfg \in LoopConfigurations

NextLoops ==
    \/ weather_loop
    \/ weather_send_done("weather_loop")
    \/ trains_air_loop
    \/ trains_air_resume("trains_air_loop")
    \/ aemet_loop
    \/ aemet_send_done("aemet_loop")

\* The event loop runs every task that is ready: a sleep ends, and an
\* awaited send returns or raises.
FairLoops ==
    /\ WF_vars(weather_loop)
    /\ WF_vars(weather_send_done("weather_loop"))
    /\ WF_vars(trains_air_loop)
    /\ WF_vars(trains_air_resume("trains_air_loop"))
    /\ WF_vars(aemet_loop)
    /\ WF_vars(aemet_send_done("aemet_loop"))

SpecLoops == InitLoops /\ [][NextLoops]_vars /\ FairLoops

(* The sleeps of the three loops, for a range of configured intervals; the *)
(* check a loop runs between two sleeps is left out.                       *)

\* The argument of asyncio.sleep without the max().
LoopSleep_no_floor(p, cf) ==
    CASE p = "weather_loop" -> cf.weather_check_minutes * 60
      [] p = "trains_air_loop" -> cf.train_air_check_minutes * 60
      [] p = "aemet_loop" -> AEMET_CHECK_MINUTES * 60

\* The argument of asyncio.sleep at the end of an iteration of loop p:
\* max(60, WEATHER_CHECK_MINUTES * 60), max(60, TRAIN_AIR_CHECK_MINUTES * 60),
\* max(120, 15 * 60).
LoopSleep(p, cf) ==
    CASE p = "weather_loop" -> Max2(SLEEP_FLOOR_SEC, cf.weather_check_minutes * 60)
      [] p = "trains_air_loop" -> Max2(SLEEP_FLOOR_SEC, cf.train_air_check_minutes * 60)
      [] p = "aemet_loop" -> Max2(AEMET_SLEEP_FLOOR_SEC, AEMET_CHECK_MINUTES * 60)

\* The check of loop p has ended and the loop calls asyncio.sleep.
loop_sleep(p) ==
    /\ pc[p] = "idle"
    /\ pc' = [pc EXCEPT ![p] = "sleeping"]
    /\ loc' = [loc EXCEPT ![p] = [t |-> "sleep", since |-> clock,
                                   until |-> clock + LoopSleep(p, cfg)]]
    /\ ev' = [op |-> "sleep", proc |-> p, slept |-> 0]
    /\ UNCHANGED <<state, clock, cfg, outbox, seen>>

\* The sleep of loop p is over and its next tick is due.
loop_wake(p) ==
    /\ pc[p] = "sleeping"
    /\ clock >= loc[p].until
    /\ pc' = [pc EXCEPT ![p] = "idle"]
    /\ loc' = [loc EXCEPT ![p] = NoLocals]
    /\ ev' = [op |-> "wake", proc |-> p, slept |-> clock - loc[p].since]
    /\ UNCHANGED <<state, clock, cfg, outbox, seen>>

InitSleep ==
    /\ InitialState
    /\ cfg \in [r1 : {TRUE}, rg1 : {TRUE}, air : {TRUE},
                 weather_check_minutes : IntervalMinutes,
                 train_air_check_minutes : IntervalMinutes]

NextSleep ==
    \/ Tick
    \/ \E p \in Loops : loop_sleep(p)
    \/ \E p \in Loops : loop_wake(p)

SpecSleep == InitSleep /\ [][NextSleep]_vars

----------------------------------------------------------------------------
(* Properties.                                                             *)

\* The send rule of the gate as the specification words it: a changed
\* signature, or the cooldown elapsed since the last send.
RuleSend(sig, last_sig, last_ts, now) ==
    sig # last_sig \/ now - last_ts >= ALERT_COOLDOWN_MIN * 60

\* The last step was the gate decision of a strict check with a candidate.
StrictGateStep(e) == e.op = "strict" /\ e.out \in {"suppressed", "gate_pass"}

StrictInFlight(p) == pc[p] = "weather_send"

\* C1: an on-demand strict check and the automatic tick are never both
\* between deciding the gate and committing the memory update, and no
\* strict check is sending a signature that was already delivered less than
\* one cooldown before its own gate time.
C1_StrictChecksSerialized ==
    /\ ~(StrictInFlight("weather_loop") /\ StrictInFlight("handler"))
    /\ \A p \in WeatherProcs :
        (StrictInFlight(p) /\ outbox.strict # None /\ outbox.strict.sig = loc[p].sig)
            => loc[p].now - outbox.strict.now >= ALERT_COOLDOWN_MIN * 60

\* C2: a strict check with a candidate goes on to send exactly when the
\* candidate's signature differs from weather_last_sig or the cooldown has
\* elapsed since weather_last_ts, and is suppressed exactly when the
\* signature is unchanged and the cooldown has not elapsed.
C2_StrictGateRule ==
    [][StrictGateStep(ev') =>
        LET send == RuleSend(ev'.sig, state.weather_last_sig,
                             state.weather_last_ts, clock)
        IN  /\ (ev'.out = "gate_pass") <=> send
            /\ (ev'.out = "suppressed") <=> ~send
            /\ (pc'[ev'.proc] = "weather_send") <=> send
            /\ state.weather_last_sig = None => send]_vars

\* C2 witness: a candidate whose signature changed was let through although
\* the last send is less than one cooldown old.
C2_ChangedSignatureSentInsideCooldown ==
    /\ ev.op = "strict" /\ ev.out = "gate_pass"
    /\ state.weather_last_sig # None
    /\ ev.sig # state.weather_last_sig
    /\ clock - state.weather_last_ts < ALERT_COOLDOWN_MIN * 60
    /\ StrictInFlight(ev.proc)

\* C3: when strict checks do not overlap, a candidate is let through exactly
\* when nothing was delivered yet, or its signature differs from the last
\* delivered one, or at least one cooldown separates it from the last
\* delivery; so two consecutive deliveries of one signature are at least
\* one cooldown apart.
C3_SameSignatureOncePerCooldown ==
    [][/\ StrictGateStep(ev') =>
            ((ev'.out = "gate_pass") <=>
                \/ outbox.strict = None
                \/ ev'.sig # outbox.strict.sig
                \/ clock - outbox.strict.now >= ALERT_COOLDOWN_MIN * 60)
       /\ (ev'.op = "strict" /\ ev'.out = "send_ok" /\ outbox.strict # None
            /\ outbox'.strict.sig = outbox.strict.sig)
            => outbox'.strict.now - outbox.strict.now >= ALERT_COOLDOWN_MIN * 60]_vars

\* C3 witness: a repeat of the delivered signature one second before the
\* cooldown ends was suppressed.
C3_RepeatSuppressedOneSecondEarly ==
    /\ ev.op = "strict" /\ ev.out = "suppressed"
    /\ outbox.strict # None
    /\ ev.sig = outbox.strict.sig
    /\ clock - outbox.strict.now = ALERT_COOLDOWN_MIN * 60 - 1

\* C4: a failed send of a strict alert leaves the weather memory as it was,
\* so the same candidate checked now or later passes the gate whenever it
\* passed before; the weather memory changes only in the step that ends a
\* successful send, to that check's signature and gate time.
C4_FailedSendKeepsWeatherMemory ==
    [][/\ (ev'.op = "strict" /\ ev'.out = "send_failed") =>
            LET mine == loc[ev'.proc]
            IN  /\ state' = state
                /\ RuleSend(mine.sig, state.weather_last_sig,
                            state.weather_last_ts, mine.now)
                    => RuleSend(mine.sig, state'.weather_last_sig,
                                state'.weather_last_ts, clock')
       /\ (state'.weather_last_sig # state.weather_last_sig
            \/ state'.weather_last_ts # state.weather_last_ts) =>
            /\ ev'.op = "strict" /\ ev'.out = "send_ok"
            /\ state'.weather_last_sig = loc[ev'.proc].sig
            /\ state'.weather_last_ts = loc[ev'.proc].now]_vars

\* C4 witness: a send failed and the candidate it carried is still new to
\* the memory.
C4_FailedSendRetried ==
    /\ ev.op = "strict" /\ ev.out = "send_failed"
    /\ ev.sig # state.weather_last_sig

\* The last step ended a send of a check_trains_and_air coroutine, for the
\* section suspended at `from`, with a Notifier failure.
RailSendFailed(e, from) ==
    e.op = "trains_air" /\ e.from = from /\ e.out = "send_failed"

\* C5: after the Notifier failed on the notification of a new feed item
\* (R1, RG1 or AEMET), the source's last-seen id is still not that item's
\* id, so the next tick takes the item for new again.
C5_FailedFeedSendKeepsLastSeenId ==
    /\ RailSendFailed(ev, "r1_send") => state.train_r1_last_id # ev.was.it.id
    /\ RailSendFailed(ev, "rg1_send") => state.train_rg1_last_id # ev.was.it.id
    /\ (ev.op = "aemet" /\ ev.out = "send_failed")
        => state.aemet_last_id # ev.was.it.id

\* C6: after the Notifier failed on an air-quality notification,
\* air_last_ts is still its initial value or the time of the last check
\* whose send succeeded, and air_last_sig the signature of that check.
C6_FailedAirSendKeepsAirMemory ==
    RailSendFailed(ev, "air_send") =>
        \/ (state.air_last_ts = 0 /\ state.air_last_sig = None)
        \/ (outbox.air # None /\ state.air_last_ts = outbox.air.now
            /\ state.air_last_sig = outbox.air.sig)

\* The last step ran the air section on a fetched payload.
AirGateStep(e) == e.op = "trains_air" /\ e.air.t = "json"

RailLineRule(f, slot, sendpc, p) ==
    HasItem(f) =>
        LET it == ItemOf(f)
            new == it.id # state[slot]
        IN  /\ (pc'[p] = sendpc) <=> (new /\ looks_serious_train(it.title))
            /\ (pc'[p] = sendpc) => loc'[p] = [t |-> "item", it |-> it]
            /\ state'[slot] = IF new THEN it.id ELSE state[slot]

\* C8: for R1 and RG1, a notification is attempted for the fetched latest
\* item exactly when its id differs from the line's last-seen id and its
\* title is classified as serious; a new item advances the last-seen id to
\* its id whether or not it is serious.
C8_RailNotifyNewAndSerious ==
    [][ev'.op = "trains_air" =>
        /\ RailLineRule(ev'.r1, "train_r1_last_id", "r1_send", ev'.proc)
        /\ RailLineRule(ev'.rg1, "train_rg1_last_id", "rg1_send", ev'.proc)]_vars

\* C8 witness: after g1, the R1 feed returned g2 with a title that is not
\* serious: nothing is being sent and the memory is at g2.
C8_QuietItemAdvancesLastSeenId ==
    /\ ev.op = "trains_air"
    /\ HasItem(ev.r1)
    /\ ItemOf(ev.r1) = [id |-> Str("g2"), title |-> TitleOnSchedule]
    /\ ev.old.train_r1_last_id = Str("g1")
    /\ state.train_r1_last_id = Str("g2")
    /\ pc[ev.proc] # "r1_send"

\* The fetch returned an empty item list.
NoItems(f) == f.t = "items" /\ f.items = <<>>

\* The new-by-id detector on the items f, for a memory slot and the position
\* of the send that follows a new item.
DetectorRule(f, slot, sendpc, p) ==
    /\ NoItems(f) => (state'[slot] = state[slot] /\ pc'[p] # sendpc)
    /\ (HasItem(f) /\ state[slot] = None) => state'[slot] = ItemOf(f).id
    /\ (HasItem(f) /\ ItemOf(f).id = state[slot])
        => (state'[slot] = state[slot] /\ pc'[p] # sendpc)

\* C9: the new-by-id detector of the three feeds changes nothing on an empty
\* item list, reports any item new when the last-seen id is None, and
\* reports no change and sends nothing for an item whose id is the
\* last-seen id; check_aemet notifies every item it reports new, whatever
\* its title.
C9_NewByIdDetector ==
    [][/\ ev'.op = "trains_air" =>
            /\ DetectorRule(ev'.r1, "train_r1_last_id", "r1_send", ev'.proc)
            /\ DetectorRule(ev'.rg1, "train_rg1_last_id", "rg1_send", ev'.proc)
       /\ (ev'.op = "aemet" /\ ev'.from = "idle") =>
            /\ DetectorRule(ev'.f, "aemet_last_id", "aemet_send", ev'.proc)
            /\ NoItems(ev'.f) => (state' = state /\ pc' = pc)
            /\ HasItem(ev'.f) =>
                /\ (pc'[ev'.proc] = "aemet_send")
                    <=> (ItemOf(ev'.f).id # state.aemet_last_id)
                /\ (pc'[ev'.proc] = "aemet_send")
                    => loc'[ev'.proc] = [t |-> "item", it |-> ItemOf(ev'.f)]]_vars

\* C9 witness: from the initial memory, an AEMET item whose title the rail
\* classifier does not find serious was reported new and is being sent.
C9_FirstAemetItemNotified ==
    /\ ev.op = "aemet"
    /\ ev.old.aemet_last_id = None
    /\ HasItem(ev.f)
    /\ ~looks_serious_train(ItemOf(ev.f).title)
    /\ state.aemet_last_id = ItemOf(ev.f).id
    /\ pc[ev.proc] = "aemet_send"
    /\ loc[ev.proc].it = ItemOf(ev.f)

\* A step reported the fetched item new: it advanced the slot or went on to
\* send.
ReportedNew(slot, sendpc, p) == state'[slot] # state[slot] \/ pc'[p] = sendpc

\* C10 as stated: a poll that returns an id its detector has observed before
\* never reports it new.
C10_ObservedItemNeverNewAgain ==
    [][/\ (ev'.op = "trains_air" /\ HasItem(ev'.r1) /\ ItemOf(ev'.r1).id \in seen.r1)
            => ~ReportedNew("train_r1_last_id", "r1_send", ev'.proc)
       /\ (ev'.op = "trains_air" /\ HasItem(ev'.rg1) /\ ItemOf(ev'.rg1).id \in seen.rg1)
            => ~ReportedNew("train_rg1_last_id", "rg1_send", ev'.proc)
       /\ (ev'.op = "aemet" /\ HasItem(ev'.f) /\ ItemOf(ev'.f).id \in seen.aemet)
            => ~ReportedNew("aemet_last_id", "aemet_send", ev'.proc)]_vars

\* C10 amended: a poll that returns an id its detector has observed before
\* reports it new exactly when the detector has observed a different id
\* since, that is when the id is no longer the last-seen id.
C10_ObservedItemNewOnlyAfterAnother ==
    [][/\ (ev'.op = "trains_air" /\ HasItem(ev'.r1) /\ ItemOf(ev'.r1).id \in seen.r1)
            => (ReportedNew("train_r1_last_id", "r1_send", ev'.proc)
                    <=> ItemOf(ev'.r1).id # state.train_r1_last_id)
       /\ (ev'.op = "trains_air" /\ HasItem(ev'.rg1) /\ ItemOf(ev'.rg1).id \in seen.rg1)
            => (ReportedNew("train_rg1_last_id", "rg1_send", ev'.proc)
                    <=> ItemOf(ev'.rg1).id # state.train_rg1_last_id)
       /\ (ev'.op = "aemet" /\ HasItem(ev'.f) /\ ItemOf(ev'.f).id \in seen.aemet)
            => (ReportedNew("aemet_last_id", "aemet_send", ev'.proc)
                    <=> ItemOf(ev'.f).id # state.aemet_last_id)]_vars

\* C10 witness: the R1 poll returned again the serious item it holds as
\* last-seen id, and nothing changed and nothing is being sent.
C10_SameItemPolledAgain ==
    /\ ev.op = "trains_air" /\ ev.from = "idle"
    /\ HasItem(ev.r1)
    /\ looks_serious_train(ItemOf(ev.r1).title)
    /\ ItemOf(ev.r1).id = ev.old.train_r1_last_id
    /\ state.train_r1_last_id = ev.old.train_r1_last_id
    /\ pc[ev.proc] # "r1_send"

\* The sections of check_trains_and_air the step ran (not skipped by the
\* configuration or passed before a suspension).
SectionsRun(e) == {f \in {e.r1, e.rg1, e.air} : f # NotRun}

\* C11: a check whose fetch or parse raised sends nothing and changes no
\* memory field.  A strict or sensible weather check and an AEMET check
\* whose fetch raised leave _state, every coroutine and the Notifier as they
\* were.  In check_trains_and_air a section whose fetch raised leaves its
\* own fields unchanged and does not reach its send; a field changes only
\* in a step where its own source's fetch succeeded, and when every section
\* that ran raised, _state is unchanged and the check has ended.
C11_FetchFailureChangesNothing ==
    [][/\ (ev'.op \in {"strict", "sensible"} /\ ev'.out = "fetch_error")
            => (state' = state /\ pc' = pc /\ outbox' = outbox)
       /\ (ev'.op = "aemet" /\ ev'.f = FetchError)
            => (state' = state /\ pc' = pc /\ outbox' = outbox)
       /\ ev'.op = "aemet" =>
            (state'.aemet_last_id # state.aemet_last_id => HasItem(ev'.f))
       /\ ev'.op = "trains_air" =>
            /\ ev'.r1 = FetchError =>
                /\ state'.train_r1_last_id = state.train_r1_last_id
                /\ pc'[ev'.proc] # "r1_send"
            /\ ev'.rg1 = FetchError =>
                /\ state'.train_rg1_last_id = state.train_rg1_last_id
                /\ pc'[ev'.proc] # "rg1_send"
            /\ ev'.air = FetchError =>
                /\ state'.air_last_sig = state.air_last_sig
                /\ state'.air_last_ts = state.air_last_ts
                /\ pc'[ev'.proc] # "air_send"
            /\ state'.train_r1_last_id # state.train_r1_last_id => HasItem(ev'.r1)
            /\ state'.train_rg1_last_id # state.train_rg1_last_id => HasItem(ev'.rg1)
            /\ (state'.air_last_sig # state.air_last_sig
                    \/ state'.air_last_ts # state.air_last_ts) => ev'.air.t = "json"
            /\ SectionsRun(ev') = {FetchError} =>
                (state' = state /\ pc'[ev'.proc] = "idle" /\ outbox' = outbox)]_vars

\* C11 witness: the R1 fetch raised in a check that went on to fetch the
\* air payload; the R1 memory, set by an earlier check, is as it was and
\* no R1 notification is being sent.
C11_FailedRailFetchKeepsMemory ==
    /\ ev.op = "trains_air" /\ ev.from = "idle"
    /\ ev.r1 = FetchError
    /\ ev.air.t = "json"
    /\ ev.old.train_r1_last_id # None
    /\ state.train_r1_last_id = ev.old.train_r1_last_id
    /\ pc[ev.proc] # "r1_send"

\* The last step was trains_air_loop running the section of source src.
LoopChecked(src) ==
    ev.proc = "trains_air_loop" /\ ev.op = "trains_air" /\ ev[src] # NotRun

WeatherSlots(st) == <<st.weather_last_sig, st.weather_last_ts>>
RailSlots(st) == <<st.train_r1_last_id, st.train_rg1_last_id>>
AirSlots(st) == <<st.air_last_sig, st.air_last_ts>>
AemetSlots(st) == <<st.aemet_last_id>>

\* C13: an on-demand check requested for one source leaves the memory slots
\* of every other source unchanged: a step of /alertas_tiempo or
\* /alertas_sensible changes no rail, air or AEMET slot, a step of
\* /alertas_trenes no weather, air or AEMET slot, a step of /alertas_aire no
\* weather, rail or AEMET slot, and a step of /alertas_aemet no weather,
\* rail or air slot.
C13_OnDemandCheckWritesOwnSlotsOnly ==
    [][/\ (cmd_alertas_tiempo \/ weather_send_done("handler")
            \/ cmd_alertas_sensible \/ sensible_send_done)
            => /\ RailSlots(state') = RailSlots(state)
               /\ AirSlots(state') = AirSlots(state)
               /\ AemetSlots(state') = AemetSlots(state)
       /\ cmd_alertas_trenes
            => /\ WeatherSlots(state') = WeatherSlots(state)
               /\ AirSlots(state') = AirSlots(state)
               /\ AemetSlots(state') = AemetSlots(state)
       /\ cmd_alertas_aire
            => /\ WeatherSlots(state') = WeatherSlots(state)
               /\ RailSlots(state') = RailSlots(state)
               /\ AemetSlots(state') = AemetSlots(state)
       /\ (cmd_alertas_aemet \/ aemet_send_done("handler"))
            => /\ WeatherSlots(state') = WeatherSlots(state)
               /\ RailSlots(state') = RailSlots(state)
               /\ AirSlots(state') = AirSlots(state)]_vars

\* The fields of _state that hold a signature or a last-seen id.
IdentitySlots ==
    {"weather_last_sig", "air_last_sig", "train_r1_last_id",
     "train_rg1_last_id", "aemet_last_id"}

\* C14: a signature or last-seen id that is not None is not None after any
\* step, so once set it is set in every later state.
C14_SetSlotNeverCleared ==
    [][\A slot \in IdentitySlots : state[slot] # None => state'[slot] # None]_vars

\* C14 witness: after a strict alert was delivered the forecast gives no
\* candidate any more, and weather_last_sig still holds the old signature,
\* as do the AEMET id and the id or signature of the configured optional
\* source.
C14_SignatureKeptWhenConditionGone ==
    /\ ev.op = "strict" /\ ev.out = "no_alert"
    /\ state.weather_last_sig # None
    /\ state.aemet_last_id # None
    /\ \/ state.train_r1_last_id # None
       \/ state.train_rg1_last_id # None
       \/ state.air_last_sig # None

\* C15: a sensible check goes through the signature/cooldown gate: when a
\* sensible alert has just been delivered and the next sensible check, at
\* the same instant, evaluates to the same reason set, that check does not
\* go on to send a second notification.
C15_SensibleRepeatSuppressed ==
    [][(/\ ev.op = "sensible" /\ ev.out = "send_ok"
        /\ ev'.op = "sensible" /\ ev'.sig = ev.sig
        /\ clock' = clock)
            => ev'.out # "gate_pass"]_vars

\* The first 6 entries of an hourly series.
Window(values) ==
    SubSeq(values, 1, IF Len(values) < 6 THEN Len(values) ELSE 6)

\* The numeric entries of a sequence.
Numeric(values) == {values[i].v : i \in {j \in 1..Len(values) : values[j].t = "num"}}

\* The largest element of a non-empty set of numbers.
Largest(S) == CHOOSE m \in S : \A x \in S : x <= m

\* The window maximum as stated: the maximum of the numeric entries of the
\* window, 0 only when there is none.
StatedMax(values) ==
    IF Numeric(Window(values)) = {} THEN 0 ELSE Largest(Numeric(Window(values)))

\* The window maximum with 0 as its floor.
FlooredMax(values) == Largest({0} \cup Numeric(Window(values)))

\* The current gust is absent, not numeric, or below the threshold.
CurrentGustBelow(e) ==
    e.data.gust_now.t = "num" => e.data.gust_now.v < e.th.gust_kmh

\* The forecast with each hourly series cut to its first 6 entries.
CutToWindow(data) ==
    [data EXCEPT !.gusts = Window(@), !.pp = Window(@), !.pr = Window(@)]

\* Entries at index 6 or later do not influence the result.
WindowOnly(e) == e.result = Evaluation(CutToWindow(e.data), e.th).result

\* C16 as stated: compute_weather_alert returns None exactly when the
\* current gust (when present and numeric) is below the gust threshold and
\* the maximum of the numeric entries among the first 6 of each hourly
\* series, taken as 0 only when all of them are absent, is below its
\* threshold; later entries never influence the result.
C16_NoneIffStatedMaximaBelow ==
    ev.op = "evaluate" =>
        /\ (ev.result = None) <=>
                /\ CurrentGustBelow(ev)
                /\ StatedMax(ev.data.gusts) < ev.th.gust_kmh
                /\ StatedMax(ev.data.pp) < ev.th.rain_prob_pct
                /\ StatedMax(ev.data.pr) < ev.th.rain_mm_h
        /\ WindowOnly(ev)

\* C16 amended: compute_weather_alert returns None exactly when the current
\* gust (when present and numeric) is below the gust threshold and, for
\* each hourly series, the largest of 0 and the numeric entries among its
\* first 6 entries is below its threshold; later entries never influence
\* the result.
C16_NoneIffFlooredMaximaBelow ==
    ev.op = "evaluate" =>
        /\ (ev.result = None) <=>
                /\ CurrentGustBelow(ev)
                /\ FlooredMax(ev.data.gusts) < ev.th.gust_kmh
                /\ FlooredMax(ev.data.pp) < ev.th.rain_prob_pct
                /\ FlooredMax(ev.data.pr) < ev.th.rain_mm_h
        /\ WindowOnly(ev)

\* C16 witness: under the strict thresholds the rain probability is 90% in
\* the seventh hourly entry only, the gust series holds one entry float()
\* rejects and one below the threshold, and the result is None.
C16_HighValueBeyondWindowIgnored ==
    /\ ev.op = "evaluate"
    /\ ev.th.gust_kmh = WEATHER_WIND_GUST_KMH * 10
    /\ Len(ev.data.pp) = 7
    /\ ev.data.pp[7] = Num(900)
    /\ ev.data.gusts = <<NotNumeric, Num(500)>>
    /\ ev.result = None

\* The four reasons, in the order compute_weather_alert tests them.
ReasonKinds ==
    <<"rachas_ahora", "rachas_proximas", "prob_lluvia", "lluvia_intensa">>

\* The condition of a reason holds for the evaluation e.
ReasonApplies(kind, e) ==
    CASE kind = "rachas_ahora" -> ~CurrentGustBelow(e)
      [] kind = "rachas_proximas" -> FlooredMax(e.data.gusts) >= e.th.gust_kmh
      [] kind = "prob_lluvia" -> FlooredMax(e.data.pp) >= e.th.rain_prob_pct
      [] kind = "lluvia_intensa" -> FlooredMax(e.data.pr) >= e.th.rain_mm_h

\* The kinds of the reasons of a candidate, in their order.
KindsOf(result) == [i \in 1..Len(result.reasons) |-> result.reasons[i][1]]

\* C17: the reasons of a candidate are exactly the reasons whose condition
\* holds, each once, in the fixed order current gust, hourly gust, rain
\* probability, rain amount; a reason is not left out because an earlier
\* one applied, and a candidate has between 1 and 4 reasons.
C17_ReasonsExactlyThoseThatApply ==
    ev.op = "evaluate" =>
        LET applies == SelectSeq(ReasonKinds, LAMBDA k : ReasonApplies(k, ev))
        IN  IF applies = <<>> THEN ev.result = None
            ELSE /\ ev.result # None
                 /\ KindsOf(ev.result) = applies
                 /\ Len(ev.result.reasons) \in 1..4

\* C17 witness: the first and the last condition hold and the two between
\* them do not, and the candidate carries those two reasons in that order.
C17_FirstAndLastReasonTogether ==
    /\ ev.op = "evaluate"
    /\ ev.result # None
    /\ KindsOf(ev.result) = <<"rachas_ahora", "lluvia_intensa">>

\* C18: strict and sensible evaluations never collide in the cooldown
\* memory.  The signature of a sensible candidate differs from the strict
\* signature of the same forecast and from weather_last_sig, and the
\* signature of a strict candidate from the sensible signature of the same
\* forecast; a step of the on-demand sensible check leaves weather_last_sig
\* and weather_last_ts unchanged, so the gate decides every strict candidate
\* after it as it would have before.
C18_SensibleNeverTouchesStrictMemory ==
    [][/\ (ev'.op = "sensible" /\ ev'.out = "gate_pass") =>
            /\ ev'.sig # StrictAlert(ev'.f)
            /\ ev'.sig # state.weather_last_sig
       /\ (ev'.op = "strict" /\ ev'.out \in {"suppressed", "gate_pass"}) =>
            ev'.sig # SensibleAlert(ev'.f)
       /\ ev'.op = "sensible" =>
            /\ WeatherSlots(state') = WeatherSlots(state)
            /\ \A f \in Forecasts :
                StrictAlert(f) # None =>
                    (RuleSend(StrictAlert(f), state'.weather_last_sig,
                              state'.weather_last_ts, clock')
                        <=> RuleSend(StrictAlert(f), state.weather_last_sig,
                                     state.weather_last_ts, clock))]_vars

\* C18 witness: a sensible alert was delivered with the very reasons of the
\* strict alert held in the weather memory, inside that alert's cooldown,
\* and the memory still holds the strict signature.
C18_SensibleSentBesideStrictMemory ==
    /\ ev.op = "sensible" /\ ev.out = "send_ok"
    /\ state.weather_last_sig # None
    /\ ev.sig.reasons = state.weather_last_sig.reasons
    /\ state.weather_last_sig.label = "estricto"
    /\ ev.sig.label = "sensible"
    /\ clock - state.weather_last_ts < ALERT_COOLDOWN_MIN * 60

\* C19: whatever the configured intervals, zero and negative included, a
\* loop that sleeps has asked for at least 60 seconds, and a loop whose
\* sleep ended has slept at least 60 seconds since its previous tick.
C19_SleepAtLeastSixtySeconds ==
    /\ \A p \in Loops :
        pc[p] = "sleeping" => loc[p].until - loc[p].since >= 60
    /\ ev.op = "wake" => ev.slept >= 60

\* C19 witness: with WEATHER_CHECK_MINUTES = 0 the weather loop woke from
\* its sleep, and with TRAIN_AIR_CHECK_MINUTES negative the trains/air loop
\* is sleeping.
C19_ZeroIntervalStillSleeps ==
    /\ cfg.weather_check_minutes = 0
    /\ cfg.train_air_check_minutes < 0
    /\ ev.op = "wake" /\ ev.proc = "weather_loop"
    /\ pc["trains_air_loop"] = "sleeping"

\* C20: a check reaches the send of an air-quality notification only if the
\* signature of the fetched snapshot differs from air_last_sig and at
\* least ALERT_COOLDOWN_MIN minutes have passed since air_last_ts; a
\* snapshot whose signature equals air_last_sig is never sent and leaves
\* the air memory as it was, however long ago air_last_ts is.
C20_AirSendOnlyWhenChangedAfterCooldown ==
    [][ev'.op = "trains_air" =>
        /\ (pc'[ev'.proc] = "air_send") =>
                /\ ev'.air.t = "json"
                /\ air_signature(ev'.air.data) # state.air_last_sig
                /\ clock - state.air_last_ts >= ALERT_COOLDOWN_MIN * 60
                /\ loc'[ev'.proc].sig = air_signature(ev'.air.data)
        /\ (ev'.air.t = "json" /\ air_signature(ev'.air.data) = state.air_last_sig) =>
                /\ pc'[ev'.proc] # "air_send"
                /\ AirSlots(state') = AirSlots(state)]_vars

\* C20 witness: the snapshot already notified was fetched again, with its
\* keys in another order, after the cooldown had elapsed, and nothing is
\* being sent and the air memory is as it was.
C20_UnchangedSnapshotQuietAfterCooldown ==
    /\ AirGateStep(ev)
    /\ ev.air.data = << <<"pm10", 7>>, <<"aqi", 42>> >>
    /\ ev.old.air_last_sig = air_signature(<< <<"aqi", 42>>, <<"pm10", 7>> >>)
    /\ clock - ev.old.air_last_ts >= ALERT_COOLDOWN_MIN * 60
    /\ pc[ev.proc] = "idle"
    /\ state = ev.old

----------------------------------------------------------------------------
(* The strict cooldown timestamp over time.                                *)

\* A step that stores a new value in weather_last_ts.
WritesWeatherTs == state'.weather_last_ts # state.weather_last_ts

\* C21: the clock never goes back, and every write to weather_last_ts,
\* whichever of the automatic loop and /alertas_tiempo makes it and however
\* their checks interleave, stores a value greater than or equal to the
\* value it replaces.
C21_WeatherTimestampNeverDecreases ==
    [][/\ clock' >= clock
       /\ WritesWeatherTs => state'.weather_last_ts >= state.weather_last_ts]_vars

----------------------------------------------------------------------------
(* A feed checked by its loop and on demand at the same time.              *)

\* Coroutine p reaches the awaited send of a feed in this step.
Attempts(p, sendpc) == pc[p] # sendpc /\ pc'[p] = sendpc

\* For the fetch f that p's step made for one feed: p reaches the send only
\* for an item whose id differed from the last-seen id and is the last-seen
\* id by the time p is suspended; and while another coroutine is suspended
\* in the send for the item with the id f returned, that id still being the
\* last-seen id, p does not reach the send.
AttemptRule(f, slot, sendpc, p) ==
    /\ Attempts(p, sendpc) =>
        /\ HasItem(f)
        /\ loc'[p] = [t |-> "item", it |-> ItemOf(f)]
        /\ ItemOf(f).id # state[slot]
        /\ state'[slot] = ItemOf(f).id
    /\ \A q \in Procs \ {p} :
        (/\ pc[q] = sendpc
         /\ HasItem(f)
         /\ loc[q].it.id = ItemOf(f).id
         /\ state[slot] = ItemOf(f).id)
            => /\ ~Attempts(p, sendpc)
               /\ state'[slot] = state[slot]

\* C22: for a rail feed and for the AEMET feed, when the loop's tick and an
\* on-demand check are interleaved and both fetch the same latest item id,
\* at most one of them attempts the notification for it: the check that
\* compares first writes the id in the same step, before its send suspends
\* it, so the other check finds the id unchanged and attempts nothing.
C22_OneAttemptPerFetchedId ==
    [][/\ ev'.op = "trains_air" =>
            /\ AttemptRule(ev'.r1, "train_r1_last_id", "r1_send", ev'.proc)
            /\ AttemptRule(ev'.rg1, "train_rg1_last_id", "rg1_send", ev'.proc)
       /\ ev'.op = "aemet" =>
            AttemptRule(ev'.f, "aemet_last_id", "aemet_send", ev'.proc)]_vars

\* C22 witness: aemet_loop is suspended in the send for the warning g1 and
\* /alertas_aemet has just fetched g1 too and ended without a send.
C22_OnDemandCheckSilentWhileLoopSends ==
    /\ pc["aemet_loop"] = "aemet_send"
    /\ loc["aemet_loop"].it.id = Str("g1")
    /\ ev.op = "aemet" /\ ev.proc = "handler" /\ ev.from = "idle"
    /\ HasItem(ev.f) /\ ItemOf(ev.f).id = Str("g1")
    /\ pc["handler"] = "idle"
    /\ state.aemet_last_id = Str("g1")

----------------------------------------------------------------------------
(* Strict checks that end without a send.                                  *)

\* The step was a strict check that found no candidate, or whose candidate
\* the gate suppressed.
StrictQuietStep(e) == e.op = "strict" /\ e.out \in {"no_alert", "suppressed"}

\* C23: a strict check that yields no candidate, or whose candidate the gate
\* suppresses, reaches no send and leaves the weather memory (and every
\* other slot) as it was; so when the condition is gone at one check and the
\* next check finds the signature of the last delivered alert again before
\* the cooldown has elapsed since that delivery, the candidate is suppressed.
C23_QuietCheckChangesNothing ==
    [][/\ StrictQuietStep(ev') =>
            /\ state' = state
            /\ outbox' = outbox
            /\ pc' = pc /\ loc' = loc
       /\ (/\ ev.op = "strict" /\ ev.out = "no_alert"
           /\ StrictGateStep(ev')
           /\ outbox.strict # None
           /\ ev'.sig = outbox.strict.sig
           /\ clock - outbox.strict.now < ALERT_COOLDOWN_MIN * 60)
            => /\ ev'.out = "suppressed"
               /\ state' = state]_vars

\* C23 witness: ten minutes after an alert was delivered a strict check
\* found no candidate, and the memory still holds the delivered signature
\* and its time.
C23_ConditionGoneMemoryKept ==
    /\ ev.op = "strict" /\ ev.out = "no_alert"
    /\ outbox.strict # None
    /\ state.weather_last_sig = outbox.strict.sig
    /\ state.weather_last_ts = outbox.strict.now
    /\ clock - outbox.strict.now = 600
    /\ NoStrictInFlight

----------------------------------------------------------------------------
(* The signature and the timestamp of a cooldown slot.                     *)

\* A slot is untouched (no signature, timestamp 0) or holds both values.
SlotPaired(sig, ts) == (sig = None) <=> (ts = 0)

\* C24: in every reachable state, however the loops' and the on-demand
\* checks interleave, weather_last_sig is None exactly when weather_last_ts
\* is its initial 0, and air_last_sig is None exactly when air_last_ts is
\* its initial 0; the clock reads more than 0.
C24_SignatureAndTimestampPaired ==
    /\ clock > 0
    /\ SlotPaired(state.weather_last_sig, state.weather_last_ts)
    /\ SlotPaired(state.air_last_sig, state.air_last_ts)

\* C24 witness: both slots were written, at different times, and right now
\* the air section of /alertas_aire has written its pair and is suspended
\* in its send while the loop's strict check is between gate and commit.
C24_BothSlotsWrittenChecksInFlight ==
    /\ state.weather_last_sig # None /\ state.weather_last_ts > 0
    /\ state.air_last_sig # None /\ state.air_last_ts > state.weather_last_ts
    /\ pc["handler"] = "air_send"
    /\ loc["handler"].now = state.air_last_ts
    /\ pc["weather_loop"] = "weather_send"

====
